---------------------------- MODULE Spec2Model ----------------------------
(***************************************************************************)
(* A model of RemoteClientContainer                                        *)
(* (spyder/plugins/remoteclient/widgets/container.py): the signal wiring   *)
(* between the container and its connection dialogs, the persisted         *)
(* connection status, the remote consoles submenu and the bootstrap of a   *)
(* remote kernel for an IPython console client.                            *)
(***************************************************************************)
EXTENDS Integers, Sequences, FiniteSets, TLC

(***************************************************************************)
(* Bounds of the model.                                                    *)
(***************************************************************************)
MaxDialogs == 2
MaxNotifs == 2
MaxRequests == 2
MaxServers == 2
MaxTriggers == 2
MaxCalls == 3

(***************************************************************************)
(* Python values: str, int, None and the keys of a dict.                   *)
(***************************************************************************)
PyStr(s) == [t |-> "str", v |-> s]
PyInt(n) == [t |-> "int", v |-> n]
PyNone == [t |-> "none"]
PyDict(ks) == [t |-> "dict", keys |-> ks]

Digit(d) == <<"0", "1", "2", "3", "4", "5", "6", "7", "8", "9">>[d + 1]

RECURSIVE IntStr(_)
IntStr(n) == IF n < 10 THEN Digit(n) ELSE IntStr(n \div 10) \o Digit(n % 10)

\* What an f-string writes for a replacement field {x}.
Format(x) ==
    CASE x.t = "str" -> x.v
      [] x.t = "int" -> IntStr(x.v)
      [] x.t = "none" -> "None"

\* Python's truth value of x, as in `if passpharse:`.
Truthy(x) ==
    CASE x.t = "str" -> x.v # ""
      [] x.t = "int" -> x.v # 0
      [] x.t = "none" -> FALSE
      [] x.t = "dict" -> x.keys # <<>>

(***************************************************************************)
(* Names imported by the container.                                        *)
(***************************************************************************)
Password == "password_login"
KeyFile == "keyfile_login"
ConfigFile == "configfile_login"
Methods == {Password, KeyFile, ConfigFile}
ManageConnections == "remote_client_manage_connections"
ManagerSection == "manager_section"
ConsolesSection == "consoles_section"

(***************************************************************************)
(* The settings store: keys are the strings the f-strings build.           *)
(***************************************************************************)
Key2(config_id, field) == config_id \o "/" \o field
Key3(config_id, auth_method, field) ==
    config_id \o "/" \o auth_method \o "/" \o field

GetConf(store, key) == store[key]
GetConfDefault(store, key, default) ==
    IF key \in DOMAIN store THEN store[key] ELSE default
SetConf(store, key, value) ==
    [k \in DOMAIN store \cup {key} |-> IF k = key THEN value ELSE store[k]]

\* The store holding exactly the given <<key, value>> pairs.
StoreOf(pairs) ==
    [k \in {p[1] : p \in pairs} |-> (CHOOSE p \in pairs : p[1] = k)[2]]

(***************************************************************************)
(* The stored connections the model starts from: one per authentication    *)
(* method, the key file one with and without a passphrase.  Every field is *)
(* stored under every method's page with a value of its own.               *)
(***************************************************************************)
ConfigIds == {"srvA", "srvB", "srvC", "srvD"}

AuthOf(c) ==
    CASE c = "srvA" -> Password
      [] c = "srvB" -> KeyFile
      [] c = "srvC" -> KeyFile
      [] c = "srvD" -> ConfigFile

BasePort(c) ==
    CASE c = "srvA" -> 22
      [] c = "srvB" -> 2222
      [] c = "srvC" -> 8022
      [] c = "srvD" -> 10022

MethodIndex(m) ==
    CASE m = Password -> 0
      [] m = KeyFile -> 1
      [] m = ConfigFile -> 2

PassphraseOf(c) == IF c = "srvB" THEN "open sesame" ELSE ""

ServerPairs(c) ==
    {<<Key2(c, "auth_method"), PyStr(AuthOf(c))>>}
    \cup {<<Key3(c, m, "name"), PyStr(c \o " via " \o m)>> : m \in Methods}
    \cup {<<Key3(c, m, "address"), PyStr(c \o "." \o m \o ".org")>> :
            m \in Methods}
    \cup {<<Key3(c, m, "username"), PyStr("user_" \o c \o "_" \o m)>> :
            m \in Methods}
    \cup {<<Key3(c, m, "port"), PyInt(BasePort(c) + MethodIndex(m))>> :
            m \in Methods}
    \cup {<<Key3(c, KeyFile, "keyfile"), PyStr("/keys/" \o c \o ".pem")>>}

SecurePairs(c) ==
    {<<Key2(c, "password"), PyStr("pw-" \o c)>>,
     <<Key2(c, "passpharse"), PyStr(PassphraseOf(c))>>}

\* srvB was connected in an earlier session: its status is stored already.
BaseConf ==
    StoreOf(UNION {ServerPairs(c) : c \in ConfigIds}
            \cup {<<Key2("srvB", "status"), PyStr("inactive")>>,
                  <<Key2("srvB", "status_message"), PyStr("")>>})

BaseSecure == StoreOf(UNION {SecurePairs(c) : c \in ConfigIds})

\* The lists of distinct config ids of at most n entries.
ServerLists(n) ==
    {s \in UNION {[1..k -> ConfigIds] : k \in 0..n} :
        \A i, j \in DOMAIN s : i # j => s[i] # s[j]}

\* The stores the program may start with: "servers" absent, or a dict.
InitialStores ==
    {BaseConf}
    \cup {SetConf(BaseConf, "servers", PyDict(s)) : s \in ServerLists(MaxServers)}

(***************************************************************************)
(* Status notifications.                                                   *)
(***************************************************************************)
NotifIds == {"srvA", "srvB"}
Statuses == {"active", "error"}
Messages == {"up", "down"}
Infos == [id : NotifIds, status : Statuses, message : Messages]

\* The (status, status_message) pair stored for host_id, None where absent.
StoredStatus(store, host_id) ==
    <<GetConfDefault(store, Key2(host_id, "status"), PyNone),
      GetConfDefault(store, Key2(host_id, "status_message"), PyNone)>>

VARIABLES
    conf,          \* the plugin's settings store
    secure,        \* the secure store (get_conf(..., secure=True))
    conf0,         \* the store at construction
    setupDone,     \* setup() has run
    registry,      \* the actions created, by name
    slots,         \* receivers of sig_connection_status_changed, in order
    dialogs,       \* the connection dialogs created
    pending,       \* receivers the running emission has yet to call
    current,       \* the info of the running emission
    notifCount,    \* emissions of sig_connection_status_changed
    handlerRuns,   \* runs of _on_connection_status_changed
    lastInfo,      \* per id, the info last emitted
    requested,     \* what the dialogs emitted
    emitted,       \* what the container emitted on its server signals
    menu,          \* the remote consoles submenu
    createReqs,    \* sig_create_ipyclient_requested emissions
    calls,         \* calls of connect_kernel_to_ipyclient
    lastCall,      \* what the last call did
    fs             \* the connection files on disk

vars == <<conf, secure, conf0, setupDone, registry, slots, dialogs, pending,
          current, notifCount, handlerRuns, lastInfo, requested, emitted,
          menu, createReqs, calls, lastCall, fs>>

signalVars == <<slots, dialogs, pending, current, notifCount, handlerRuns,
                lastInfo, requested, emitted>>
menuVars == <<menu, createReqs>>
kernelVars == <<calls, lastCall, fs>>

NoInfo == [id |-> "", status |-> "", message |-> ""]
NoCall ==
    [server |-> "", auth_method |-> "", connection_info |-> <<>>, file |-> "",
     outcome |-> "",
     trace |-> <<>>, constructions |-> <<>>, shown |-> <<>>,
     connected |-> <<>>, raised |-> ""]

\* The state after construction, the store being one of stores.
InitWith(stores) ==
    /\ conf \in stores
    /\ conf0 = conf
    /\ secure = BaseSecure
    /\ setupDone = FALSE
    /\ registry = <<>>
    /\ slots = <<>>
    /\ dialogs = <<>>
    /\ pending = <<>>
    /\ current = NoInfo
    /\ notifCount = 0
    /\ handlerRuns = 0
    /\ lastInfo = [h \in NotifIds |-> NoInfo]
    /\ requested = <<>>
    /\ emitted = <<>>
    /\ menu = <<>>
    /\ createReqs = <<>>
    /\ calls = 0
    /\ lastCall = NoCall
    /\ fs = <<>>

\* The store of an installation with two saved connections.
DefaultStore == SetConf(BaseConf, "servers", PyDict(<<"srvA", "srvB">>))

Init == InitWith({DefaultStore})

(***************************************************************************)
(* Signals.  A connection made later is called later; an emission calls    *)
(* every receiver, one after the other, before anything else runs.         *)
(***************************************************************************)
SelfSlot == [to |-> "_on_connection_status_changed", d |-> 0]
DialogSlot(d) == [to |-> "dialog.sig_connection_status_changed", d |-> d]

Connect(receivers, slot) == Append(receivers, slot)

CreateAction(reg, name, action) ==
    [k \in DOMAIN reg \cup {name} |-> IF k = name THEN action ELSE reg[k]]

\* setup()
Setup ==
    /\ ~setupDone
    /\ setupDone' = TRUE
    /\ registry' = CreateAction(registry, ManageConnections,
                       [text |-> "Manage remote connections...",
                        triggered |-> "_show_connection_dialog",
                        config_id |-> ""])
    /\ slots' = Connect(slots, SelfSlot)
    /\ UNCHANGED <<conf, secure, conf0, dialogs, pending, current, notifCount,
                   handlerRuns, lastInfo, requested, emitted>>
    /\ UNCHANGED <<menuVars, kernelVars>>

\* A slip: each dialog signal connected to the other container signal.
DialogConnectionsSwapped ==
    [start |-> "sig_stop_server_requested",
     stop |-> "sig_start_server_requested"]

\* The container signals the dialog's two server signals are connected to.
DialogConnections ==
    [start |-> "sig_start_server_requested",
     stop |-> "sig_stop_server_requested"]

\* A slip: the dialog is called before the receivers connected earlier.
DialogSlotsFirst(receivers, d) == <<DialogSlot(d)>> \o receivers

\* The receivers of sig_connection_status_changed once dialog d is connected.
DialogSlots(receivers, d) == Connect(receivers, DialogSlot(d))

NothingSeen == [info |-> NoInfo, stored |-> <<PyNone, PyNone>>]

\* _show_connection_dialog(), the slot of the ManageConnections action
ShowConnectionDialog ==
    /\ ManageConnections \in DOMAIN registry
    /\ pending = <<>>
    /\ Len(dialogs) < MaxDialogs
    /\ dialogs' = Append(dialogs,
           [start |-> DialogConnections.start,
            stop |-> DialogConnections.stop,
            received |-> 0,
            seen |-> NothingSeen,
            atOpen |-> [stored |-> [h \in NotifIds |-> StoredStatus(conf, h)],
                        latest |-> lastInfo]])
    /\ slots' = DialogSlots(slots, Len(dialogs) + 1)
    /\ UNCHANGED <<conf, secure, conf0, setupDone, registry, pending, current,
                   notifCount, handlerRuns, lastInfo, requested, emitted>>
    /\ UNCHANGED <<menuVars, kernelVars>>

\* Dialog d emits its sig_start_server_requested with id x.
DialogStartServer(d, x) ==
    /\ pending = <<>>
    /\ Len(requested) < MaxRequests
    /\ requested' = Append(requested,
           [dialog |-> d, signal |-> "sig_start_server_requested", id |-> x])
    /\ emitted' = Append(emitted, [signal |-> dialogs[d].start, id |-> x])
    /\ UNCHANGED <<conf, secure, conf0, setupDone, registry, slots, dialogs,
                   pending, current, notifCount, handlerRuns, lastInfo>>
    /\ UNCHANGED <<menuVars, kernelVars>>

\* Dialog d emits its sig_stop_server_requested with id x.
DialogStopServer(d, x) ==
    /\ pending = <<>>
    /\ Len(requested) < MaxRequests
    /\ requested' = Append(requested,
           [dialog |-> d, signal |-> "sig_stop_server_requested", id |-> x])
    /\ emitted' = Append(emitted, [signal |-> dialogs[d].stop, id |-> x])
    /\ UNCHANGED <<conf, secure, conf0, setupDone, registry, slots, dialogs,
                   pending, current, notifCount, handlerRuns, lastInfo>>
    /\ UNCHANGED <<menuVars, kernelVars>>

\* sig_connection_status_changed.emit(info)
EmitStatus(info) ==
    /\ setupDone
    /\ pending = <<>>
    /\ notifCount < MaxNotifs
    /\ pending' = slots
    /\ current' = info
    /\ notifCount' = notifCount + 1
    /\ lastInfo' = [lastInfo EXCEPT ![info.id] = info]
    /\ UNCHANGED <<conf, secure, conf0, setupDone, registry, slots, dialogs,
                   handlerRuns, requested, emitted>>
    /\ UNCHANGED <<menuVars, kernelVars>>

\* A slip: the status saved under the message's key and the other way round.
OnConnectionStatusChangedSwapped(store, info) ==
    LET saved == SetConf(store, Key2(info.id, "status"), PyStr(info.message))
    IN  SetConf(saved, Key2(info.id, "status_message"), PyStr(info.status))

\* _on_connection_status_changed(info): the store afterwards
OnConnectionStatusChanged(store, info) ==
    LET host_id == info.id
        status == info.status
        message == info.message
        saved == SetConf(store, Key2(host_id, "status"), PyStr(status))
    IN  SetConf(saved, Key2(host_id, "status_message"), PyStr(message))

\* The running emission calls its next receiver.
Deliver ==
    /\ pending # <<>>
    /\ pending' = Tail(pending)
    /\ IF Head(pending) = SelfSlot
       THEN /\ conf' = OnConnectionStatusChanged(conf, current)
            /\ handlerRuns' = handlerRuns + 1
            /\ UNCHANGED dialogs
       ELSE /\ dialogs' = [dialogs EXCEPT
                  ![Head(pending).d].received = @ + 1,
                  ![Head(pending).d].seen =
                      [info |-> current,
                       stored |-> StoredStatus(conf, current.id)]]
            /\ UNCHANGED <<conf, handlerRuns>>
    /\ UNCHANGED <<secure, conf0, setupDone, registry, slots, current,
                   notifCount, lastInfo, requested, emitted>>
    /\ UNCHANGED <<menuVars, kernelVars>>

\* Status notifications and the dialogs that receive them.
Next ==
    \/ Setup
    \/ ShowConnectionDialog
    \/ \E info \in Infos : EmitStatus(info)
    \/ Deliver

Spec == Init /\ [][Next]_vars

\* The dialogs' requests to start and stop servers.
NextServers ==
    \/ Setup
    \/ ShowConnectionDialog
    \/ \E d \in DOMAIN dialogs, x \in ConfigIds : DialogStartServer(d, x)
    \/ \E d \in DOMAIN dialogs, x \in ConfigIds : DialogStopServer(d, x)

SpecServers == Init /\ [][NextServers]_vars

(***************************************************************************)
(* The remote consoles submenu.                                            *)
(***************************************************************************)
\* A slip: the lambda reads config_id when triggered, after the loop has ended.
ConsoleActionLateBinding(store, servers, i) ==
    LET auth_method == GetConf(store, Key2(servers[i], "auth_method"))
        name == GetConf(store, Key3(servers[i], Format(auth_method), "name"))
    IN  [text |-> "New console in " \o Format(name) \o " server",
         triggered |-> "sig_create_ipyclient_requested.emit",
         config_id |-> servers[Len(servers)]]

\* The action the loop creates for servers[i]: its lambda binds config_id
\* as a default argument, the value of this iteration.
ConsoleAction(store, servers, i) ==
    LET config_id == servers[i]
        auth_method == GetConf(store, Key2(config_id, "auth_method"))
        name == GetConf(store, Key3(config_id, Format(auth_method), "name"))
    IN  [text |-> "New console in " \o Format(name) \o " server",
         triggered |-> "sig_create_ipyclient_requested.emit",
         config_id |-> config_id]

\* The registry after the first n iterations of `for config_id in servers`.
RECURSIVE ConsoleActions(_, _, _, _)
ConsoleActions(reg, store, servers, n) ==
    IF n = 0 THEN reg
    ELSE CreateAction(ConsoleActions(reg, store, servers, n - 1),
                      servers[n], ConsoleAction(store, servers, n))

\* create_remote_consoles_submenu()
CreateRemoteConsolesSubmenu ==
    /\ ManageConnections \in DOMAIN registry
    /\ pending = <<>>
    /\ menu = <<>>
    /\ LET servers == GetConfDefault(conf, "servers", PyDict(<<>>)).keys
       IN  /\ registry' = ConsoleActions(registry, conf, servers, Len(servers))
           /\ menu' = <<[section |-> ManagerSection,
                         action |-> ManageConnections]>>
                      \o [i \in 1..Len(servers) |->
                             [section |-> ConsolesSection,
                              action |-> servers[i]]]
    /\ UNCHANGED <<conf, secure, conf0, setupDone, createReqs>>
    /\ UNCHANGED <<signalVars, kernelVars>>

\* The user triggers the i-th item of the submenu, a console action.
TriggerConsoleAction(i) ==
    /\ pending = <<>>
    /\ menu[i].section = ConsolesSection
    /\ Len(createReqs) < MaxTriggers
    /\ createReqs' = Append(createReqs,
           [action |-> menu[i].action,
            id |-> registry[menu[i].action].config_id])
    /\ UNCHANGED <<conf, secure, conf0, setupDone, registry, menu>>
    /\ UNCHANGED <<signalVars, kernelVars>>

NextMenu ==
    \/ Setup
    \/ ShowConnectionDialog
    \/ CreateRemoteConsolesSubmenu
    \/ \E i \in DOMAIN menu : TriggerConsoleAction(i)

SpecMenu == InitWith(InitialStores) /\ [][NextMenu]_vars

(***************************************************************************)
(* connect_kernel_to_ipyclient.                                            *)
(***************************************************************************)
\* A local variable no branch has assigned.
Unbound == [t |-> "unbound"]

\* kernel_info["connection_info"], and what json.dump writes for it.
ConnectionInfos ==
    {[shell_port |-> 53001, key |-> "a1b2"], [shell_port |-> 0, key |-> ""]}

JsonDump(ci) ==
    "{\"shell_port\": " \o IntStr(ci.shell_port)
        \o ", \"key\": \"" \o ci.key \o "\"}"

\* What KernelHandler.from_connection_file does: it returns a handler, or
\* raises the named exception.
Outcomes == {"returns", "OSError", "KeyboardInterrupt"}

\* The classes an exception is an instance of.
ClassesOf(e) ==
    CASE e = "OSError" -> {"OSError", "Exception", "BaseException"}
      [] e = "UnboundLocalError" ->
            {"UnboundLocalError", "NameError", "Exception", "BaseException"}
      [] e = "KeyboardInterrupt" -> {"KeyboardInterrupt", "BaseException"}

\* A slip: no try statement around the construction.
CaughtNever(e) == FALSE

\* `except Exception as e`
Caught(e) == "Exception" \in ClassesOf(e)

\* hostname, in the format expected by KernelHandler
Hostname(store, config_id, auth_method) ==
    LET address == GetConf(store, Key3(config_id, auth_method, "address"))
        username == GetConf(store, Key3(config_id, auth_method, "username"))
        port == GetConf(store, Key3(config_id, auth_method, "port"))
    IN  Format(username) \o "@" \o Format(address) \o ":" \o Format(port)

\* A slip: the passphrase handed over as stored, empty or not.
CredentialsRawPassphrase(store, sec, config_id, auth_method) ==
    IF auth_method = Password
    THEN [password |-> GetConf(sec, Key2(config_id, "password")),
          sshkey |-> PyNone]
    ELSE IF auth_method = KeyFile
    THEN [sshkey |-> GetConf(store, Key3(config_id, auth_method, "keyfile")),
          password |-> GetConf(sec, Key2(config_id, "passpharse"))]
    ELSE [sshkey |-> Unbound, password |-> Unbound]

\* A change: the else branch assigns None to both locals.
CredentialsConfigFileNone(store, sec, config_id, auth_method) ==
    IF auth_method = Password
    THEN [password |-> GetConf(sec, Key2(config_id, "password")),
          sshkey |-> PyNone]
    ELSE IF auth_method = KeyFile
    THEN LET passpharse == GetConf(sec, Key2(config_id, "passpharse"))
         IN  [sshkey |-> GetConf(store, Key3(config_id, auth_method, "keyfile")),
              password |-> IF Truthy(passpharse) THEN passpharse ELSE PyNone]
    ELSE [sshkey |-> PyNone, password |-> PyNone]

\* The locals sshkey and password after the if/elif/else on auth_method.
Credentials(store, sec, config_id, auth_method) ==
    IF auth_method = Password
    THEN [password |-> GetConf(sec, Key2(config_id, "password")),
          sshkey |-> PyNone]
    ELSE IF auth_method = KeyFile
    THEN LET passpharse == GetConf(sec, Key2(config_id, "passpharse"))
         IN  [sshkey |-> GetConf(store, Key3(config_id, auth_method, "keyfile")),
              password |-> IF Truthy(passpharse) THEN passpharse ELSE PyNone]
    ELSE [sshkey |-> Unbound, password |-> Unbound]

NewConnectionFile(n) == "kernel-" \o IntStr(n + 1) \o ".json"

\* A slip: the file is opened for writing and nothing is dumped into it.
WriteConnectionFileEmpty(files, connection_file, connection_info) ==
    SetConf(files, connection_file, "")

\* with open(connection_file, "w") as f: json.dump(connection_info, f)
WriteConnectionFile(files, connection_file, connection_info) ==
    SetConf(files, connection_file, JsonDump(connection_info))

\* A change: a failed construction is tried a second time before it is shown.
TryKernelHandlerRetry(connection_file, hostname, creds, outcome) ==
    LET args == [connection_file |-> connection_file, hostname |-> hostname,
                 sshkey |-> creds.sshkey, password |-> creds.password]
        unbound == creds.sshkey = Unbound \/ creds.password = Unbound
    IN  IF unbound
        THEN [trace |-> <<"show_kernel_error">>, constructions |-> <<>>,
              shown |-> <<"UnboundLocalError">>, connected |-> <<>>,
              raised |-> ""]
        ELSE IF outcome = "returns"
        THEN [trace |-> <<"from_connection_file", "connect_kernel">>,
              constructions |-> <<args>>, shown |-> <<>>,
              connected |-> <<args>>, raised |-> ""]
        ELSE [trace |-> <<"from_connection_file", "from_connection_file">>
                        \o (IF "Exception" \in ClassesOf(outcome)
                            THEN <<"show_kernel_error">> ELSE <<>>),
              constructions |-> <<args, args>>,
              shown |-> IF "Exception" \in ClassesOf(outcome)
                        THEN <<outcome>> ELSE <<>>,
              connected |-> <<>>,
              raised |-> IF "Exception" \in ClassesOf(outcome)
                         THEN "" ELSE outcome]

\* The try statement and what follows it: the calls made, in order.
TryKernelHandler(connection_file, hostname, creds, outcome) ==
    LET args == [connection_file |-> connection_file, hostname |-> hostname,
                 sshkey |-> creds.sshkey, password |-> creds.password]
        unbound == creds.sshkey = Unbound \/ creds.password = Unbound
        e == IF unbound THEN "UnboundLocalError"
             ELSE IF outcome = "returns" THEN "" ELSE outcome
        constructions == IF unbound THEN <<>> ELSE <<args>>
        attempt == IF unbound THEN <<>> ELSE <<"from_connection_file">>
    IN  IF e = ""
        THEN [trace |-> attempt \o <<"connect_kernel">>,
              constructions |-> constructions, shown |-> <<>>,
              connected |-> <<args>>, raised |-> ""]
        ELSE IF Caught(e)
        THEN [trace |-> attempt \o <<"show_kernel_error">>,
              constructions |-> constructions, shown |-> <<e>>,
              connected |-> <<>>, raised |-> ""]
        ELSE [trace |-> attempt, constructions |-> constructions,
              shown |-> <<>>, connected |-> <<>>, raised |-> e]

\* connect_kernel_to_ipyclient(ipyclient, kernel_info), where config_id is
\* ipyclient.server_id, connection_info is kernel_info["connection_info"] and
\* outcome is what from_connection_file does when called.
ConnectKernelToIpyclient(config_id, connection_info, outcome) ==
    /\ pending = <<>>
    /\ calls < MaxCalls
    /\ LET auth_method == Format(GetConf(conf, Key2(config_id, "auth_method")))
           hostname == Hostname(conf, config_id, auth_method)
           creds == Credentials(conf, secure, config_id, auth_method)
           connection_file == NewConnectionFile(calls)
           try == TryKernelHandler(connection_file, hostname, creds, outcome)
       IN  /\ fs' = WriteConnectionFile(fs, connection_file, connection_info)
           /\ lastCall' = [server |-> config_id,
                           auth_method |-> auth_method,
                           connection_info |-> connection_info,
                           file |-> connection_file,
                           outcome |-> outcome,
                           trace |-> <<"json.dump">> \o try.trace,
                           constructions |-> try.constructions,
                           shown |-> try.shown,
                           connected |-> try.connected,
                           raised |-> try.raised]
    /\ calls' = calls + 1
    /\ UNCHANGED <<conf, secure, conf0, setupDone, registry>>
    /\ UNCHANGED <<signalVars, menuVars>>

NextKernel ==
    \E c \in ConfigIds, ci \in ConnectionInfos, o \in Outcomes :
        ConnectKernelToIpyclient(c, ci, o)

SpecKernel == Init /\ [][NextKernel]_vars

(***************************************************************************)
(* Properties.                                                             *)
(***************************************************************************)
Stored(x) == <<PyStr(x.status), PyStr(x.message)>>

\* The keys under which notifications of the ids notified so far are saved.
NotifiedKeys ==
    UNION {{h \o "/status", h \o "/status_message"} :
              h \in {i \in NotifIds : lastInfo[i] # NoInfo}}

\* C2: once _on_connection_status_changed has run for every notification
\* emitted, the pair stored under "{h}/status" and "{h}/status_message" is the
\* status and the message of the last notification whose id is h, for every
\* id h notified, and every other key of the store is as it was at
\* construction.
C2_LastStatusStored ==
    handlerRuns = notifCount =>
        /\ \A h \in NotifIds :
              lastInfo[h] # NoInfo =>
                  /\ h \o "/status" \in DOMAIN conf
                  /\ h \o "/status_message" \in DOMAIN conf
                  /\ conf[h \o "/status"] = PyStr(lastInfo[h].status)
                  /\ conf[h \o "/status_message"] = PyStr(lastInfo[h].message)
        /\ DOMAIN conf = DOMAIN conf0 \cup NotifiedKeys
        /\ \A k \in DOMAIN conf \ NotifiedKeys : conf[k] = conf0[k]

\* Two notifications of srvB were saved, the second over the first and over
\* the status stored at construction; srvA, never notified, has no status.
C2_Witness ==
    /\ notifCount = 2
    /\ handlerRuns = 2
    /\ pending = <<>>
    /\ lastInfo["srvA"] = NoInfo
    /\ lastInfo["srvB"] = [id |-> "srvB", status |-> "error", message |-> "down"]
    /\ conf0["srvB/status"] = PyStr("inactive")
    /\ conf["srvB/status"] = PyStr("error")
    /\ "srvA/status" \notin DOMAIN conf

\* C3: the container's emissions of sig_start_server_requested and
\* sig_stop_server_requested are, one for one and in order, the requests the
\* dialogs emitted: the same signal with the same id, and nothing else.
C3_RequestsForwarded ==
    /\ Len(emitted) = Len(requested)
    /\ \A i \in DOMAIN requested :
          /\ emitted[i].signal = requested[i].signal
          /\ emitted[i].id = requested[i].id

\* A start request of one dialog and a stop request of another were forwarded.
C3_Witness ==
    /\ Len(requested) = 2
    /\ requested[1].signal = "sig_start_server_requested"
    /\ requested[2].signal = "sig_stop_server_requested"
    /\ requested[1].dialog # requested[2].dialog
    /\ requested[1].id = "srvC"
    /\ emitted[2] = [signal |-> "sig_stop_server_requested", id |-> "srvD"]

\* The config ids of the stored "servers" entry, none when it is absent.
StoredServers ==
    IF "servers" \in DOMAIN conf THEN conf["servers"].keys ELSE <<>>

\* C4: the submenu, once built, holds the ManageConnections action and then
\* one console action per config id of the stored "servers" entry (none when
\* the entry is absent or empty), and triggering the action of config id c
\* emits sig_create_ipyclient_requested with c.
C4_SubmenuPerServer ==
    /\ menu # <<>> =>
          /\ Len(menu) = 1 + Len(StoredServers)
          /\ menu[1] = [section |-> ManagerSection,
                        action |-> ManageConnections]
          /\ \A i \in DOMAIN StoredServers :
                /\ menu[i + 1] = [section |-> ConsolesSection,
                                  action |-> StoredServers[i]]
                /\ StoredServers[i] \in DOMAIN registry
          /\ \A c \in ConfigIds :
                Cardinality({i \in DOMAIN menu : menu[i].action = c})
                    = Cardinality({i \in DOMAIN StoredServers :
                                      StoredServers[i] = c})
    /\ \A r \in DOMAIN createReqs : createReqs[r].id = createReqs[r].action

\* The submenu has two console actions and the first one, not the one of the
\* last server iterated, was triggered.
C4_Witness ==
    /\ Len(menu) = 3
    /\ Len(createReqs) = 1
    /\ createReqs[1].action = menu[2].action
    /\ menu[2].action # menu[3].action
    /\ createReqs[1].id = StoredServers[1]

FromConnectionFileRaised ==
    /\ calls > 0
    /\ lastCall.constructions # <<>>
    /\ lastCall.outcome # "returns"

\* C1 as stated: whenever from_connection_file raises any exception, it is
\* shown once, connect_kernel is not called, construction is attempted once
\* and nothing propagates.
C1_AnyExceptionShown ==
    FromConnectionFileRaised =>
        /\ lastCall.shown = <<lastCall.outcome>>
        /\ lastCall.connected = <<>>
        /\ Len(lastCall.constructions) = 1
        /\ lastCall.raised = ""

\* C1, amended: whenever from_connection_file raises an exception that is an
\* instance of Exception, it is passed to show_kernel_error exactly once,
\* connect_kernel is not called, construction is attempted exactly once and
\* no exception propagates; an exception that is not an instance of Exception
\* (KeyboardInterrupt) is not shown and propagates.
C1_ExceptionShown ==
    FromConnectionFileRaised =>
        /\ Len(lastCall.constructions) = 1
        /\ lastCall.connected = <<>>
        /\ "Exception" \in ClassesOf(lastCall.outcome) =>
              /\ lastCall.shown = <<lastCall.outcome>>
              /\ lastCall.raised = ""
        /\ "Exception" \notin ClassesOf(lastCall.outcome) =>
              /\ lastCall.shown = <<>>
              /\ lastCall.raised = lastCall.outcome

C1_Witness ==
    /\ calls > 0
    /\ lastCall.outcome = "OSError"
    /\ Len(lastCall.constructions) = 1
    /\ lastCall.shown = <<"OSError">>
    /\ lastCall.trace = <<"json.dump", "from_connection_file",
                          "show_kernel_error">>

\* C5: the identity handed to from_connection_file for connection c with
\* stored method m is the hostname "{username}@{address}:{port}" of the fields
\* under "{c}/{m}/"; with Password, no sshkey and the secure "{c}/password";
\* with KeyFile, the stored "{c}/{m}/keyfile" and the secure passphrase, or
\* None when the passphrase is empty.
C5_Identity ==
    \A k \in DOMAIN lastCall.constructions :
        LET c == lastCall.server
            m == conf[c \o "/auth_method"].v
            id == lastCall.constructions[k]
            pre == c \o "/" \o m \o "/"
        IN  /\ id.hostname = conf[pre \o "username"].v \o "@"
                  \o conf[pre \o "address"].v \o ":"
                  \o IntStr(conf[pre \o "port"].v)
            /\ m = "password_login" =>
                  /\ id.sshkey = PyNone
                  /\ id.password = secure[c \o "/password"]
            /\ m = "keyfile_login" =>
                  /\ id.sshkey = conf[pre \o "keyfile"]
                  /\ id.password =
                        IF secure[c \o "/passpharse"].v # ""
                        THEN secure[c \o "/passpharse"] ELSE PyNone
            /\ m \in {"password_login", "keyfile_login"}

\* A key file connection without passphrase: the password handed over is None.
C5_Witness ==
    /\ lastCall.server = "srvC"
    /\ Len(lastCall.constructions) = 1
    /\ lastCall.constructions[1].hostname
           = "user_srvC_keyfile_login@srvC.keyfile_login.org:8023"
    /\ lastCall.constructions[1].sshkey = PyStr("/keys/srvC.pem")
    /\ lastCall.constructions[1].password = PyNone

\* C6: in every call the new connection file holds the JSON of the connection
\* info before from_connection_file is attempted, on that same file, and the
\* file of every call made so far is on disk, whatever construction did.
C6_FileWrittenFirst ==
    /\ \A n \in 0..(calls - 1) : NewConnectionFile(n) \in DOMAIN fs
    /\ Cardinality(DOMAIN fs) = calls
    /\ calls > 0 =>
          /\ lastCall.file \in DOMAIN fs
          /\ fs[lastCall.file] = JsonDump(lastCall.connection_info)
          /\ lastCall.trace[1] = "json.dump"
          /\ \A i \in DOMAIN lastCall.trace :
                lastCall.trace[i] = "json.dump" => i = 1
          /\ \A k \in DOMAIN lastCall.constructions :
                lastCall.constructions[k].connection_file = lastCall.file

\* A failed construction after a successful one: both files are on disk.
C6_Witness ==
    /\ calls = 2
    /\ lastCall.outcome = "OSError"
    /\ lastCall.shown = <<"OSError">>
    /\ lastCall.file = "kernel-2.json"
    /\ fs["kernel-2.json"] = "{\"shell_port\": 53001, \"key\": \"a1b2\"}"
    /\ fs["kernel-1.json"] = "{\"shell_port\": 0, \"key\": \"\"}"

PasswordOrKeyFile ==
    /\ calls > 0
    /\ lastCall.auth_method \in {"password_login", "keyfile_login"}

ExactlyOneOutcome ==
    /\ Len(lastCall.connected) + Len(lastCall.shown) = 1
    /\ lastCall.outcome = "returns" =>
          /\ lastCall.connected = lastCall.constructions
          /\ Len(lastCall.constructions) = 1
    /\ lastCall.outcome # "returns" => lastCall.shown = <<lastCall.outcome>>

\* C7 as stated: with Password or KeyFile every call ends with exactly one of
\* connect_kernel (construction succeeded) and show_kernel_error (it raised).
C7_AlwaysOneOutcome == PasswordOrKeyFile => ExactlyOneOutcome

\* C7, amended: with Password or KeyFile, every call in which
\* from_connection_file returns or raises an instance of Exception ends with
\* exactly one of connect_kernel, called once with the handler returned, and
\* show_kernel_error, called once with the exception; when it raises an
\* exception that is not an instance of Exception, neither is called.
C7_OneOutcome ==
    PasswordOrKeyFile =>
        IF lastCall.outcome = "returns"
           \/ "Exception" \in ClassesOf(lastCall.outcome)
        THEN ExactlyOneOutcome
        ELSE lastCall.connected = <<>> /\ lastCall.shown = <<>>

C7_Witness ==
    /\ calls > 0
    /\ lastCall.server = "srvA"
    /\ lastCall.outcome = "returns"
    /\ Len(lastCall.connected) = 1
    /\ lastCall.connected[1].password = PyStr("pw-srvA")
    /\ lastCall.shown = <<>>
    /\ lastCall.trace = <<"json.dump", "from_connection_file",
                          "connect_kernel">>

\* C8: when the stored method is neither Password nor KeyFile, the connection
\* file is written, from_connection_file and connect_kernel are not called,
\* and the UnboundLocalError of the unassigned locals is shown exactly once
\* and does not propagate.
C8_ConfigFileUnbound ==
    (calls > 0
     /\ lastCall.auth_method \notin {"password_login", "keyfile_login"}) =>
        /\ lastCall.constructions = <<>>
        /\ lastCall.connected = <<>>
        /\ lastCall.shown = <<"UnboundLocalError">>
        /\ lastCall.raised = ""
        /\ lastCall.file \in DOMAIN fs
        /\ lastCall.trace = <<"json.dump", "show_kernel_error">>

C8_Witness ==
    /\ calls > 0
    /\ lastCall.server = "srvD"
    /\ lastCall.auth_method = "configfile_login"
    /\ lastCall.shown = <<"UnboundLocalError">>
    /\ lastCall.constructions = <<>>
    /\ lastCall.file \in DOMAIN fs

\* C10: when a notification is delivered to a dialog, the store already holds
\* its status and message under the id's keys; and a dialog opened after
\* notifications finds, for every id notified, the status and message of the
\* latest one in the store.
C10_StoredBeforeDelivered ==
    \A d \in DOMAIN dialogs :
        /\ dialogs[d].received > 0 =>
              /\ pending = <<>> => dialogs[d].seen.info = current
              /\ dialogs[d].seen.stored = Stored(dialogs[d].seen.info)
        /\ \A h \in NotifIds :
              dialogs[d].atOpen.latest[h] # NoInfo =>
                  dialogs[d].atOpen.stored[h]
                      = Stored(dialogs[d].atOpen.latest[h])

\* A dialog opened after a notification of srvA read it from the store, then
\* received another one and read that.
C10_Witness ==
    /\ Len(dialogs) >= 1
    /\ dialogs[1].atOpen.latest["srvA"]
           = [id |-> "srvA", status |-> "active", message |-> "up"]
    /\ dialogs[1].atOpen.stored["srvA"] = <<PyStr("active"), PyStr("up")>>
    /\ dialogs[1].received = 1
    /\ dialogs[1].seen.info
           = [id |-> "srvA", status |-> "error", message |-> "down"]
    /\ dialogs[1].seen.stored = <<PyStr("error"), PyStr("down")>>

=============================================================================
